---- MODULE Spec2Model ----
(***************************************************************************)
(* Model of prost-reflect-validate's validator registry                    *)
(* (src/prost-reflect-validate/src/registry.rs): the process-wide cache    *)
(* of compiled validators behind a reader-writer lock, Registry::register  *)
(* (Compile), Registry::validate and Registry::do_validate.                *)
(***************************************************************************)
EXTENDS Integers, Sequences, FiniteSets, TLC

\* ------------------------------------------------------------------ bounds
NThreads == 2     \* caller threads of the concurrent specification
MaxDepth == 1     \* nesting depth of the message instances that are validated
MaxStack == 8     \* call-stack frames available to register / do_validate

Threads == 1..NThreads

\* ------------------------------------------------------- schema descriptors
\* A FieldDescriptor: its full name, its shape, the schema of its message /
\* element / value type ("-" for none), its containing oneof ("-" for none),
\* what the Rule Extractor answers for it (Some, None or an error), and the
\* length of the chain the list / map compiler produces for it.
Fld(n, s, r, o, u, c) ==
    [name |-> n, shape |-> s, ref |-> r, oneof |-> o, rules |-> u, chain |-> c]

Msg(fs, dis, ign, req) ==
    [fields |-> fs, disabled |-> dis, ignored |-> ign, required |-> req]

Names == {"A", "B", "K", "D", "I", "E", "X", "O1", "O2", "O3", "N", "W", "L", "LI", "M"}

Descriptor(name) ==
    CASE name = "A" ->   \* self-referential, and mutually recursive with B
           Msg(<<Fld("A.v", "scalar", "-", "-", "some", 1),
                 Fld("A.self", "message", "A", "-", "some", 1),
                 Fld("A.b", "message", "B", "-", "some", 1)>>, FALSE, FALSE, {})
      [] name = "B" ->
           Msg(<<Fld("B.a", "message", "A", "-", "some", 1)>>, FALSE, FALSE, {})
      [] name = "K" ->   \* a leaf item with one constrained field
           Msg(<<Fld("K.q", "scalar", "-", "-", "some", 1)>>, FALSE, FALSE, {})
      [] name = "D" ->   \* disabled, with a required oneof and constrained members
           Msg(<<Fld("D.x", "scalar", "-", "D.g", "some", 1),
                 Fld("D.y", "scalar", "-", "D.g", "some", 1)>>, TRUE, FALSE, {"D.g"})
      [] name = "I" ->   \* ignored, with a field the Rule Extractor rejects
           Msg(<<Fld("I.e", "scalar", "-", "-", "err", 1)>>, FALSE, TRUE, {})
      [] name = "E" ->   \* the Rule Extractor fails on the second field
           Msg(<<Fld("E.n", "message", "B", "-", "some", 1),
                 Fld("E.e", "scalar", "-", "-", "err", 1)>>, FALSE, FALSE, {})
      [] name = "X" ->   \* references a schema whose Compile fails
           Msg(<<Fld("X.e", "message", "E", "-", "some", 1)>>, FALSE, FALSE, {})
      [] name = "O1" ->  \* required oneof, members interleaved with a plain field
           Msg(<<Fld("O1.x", "scalar", "-", "O1.g", "some", 1),
                 Fld("O1.z", "scalar", "-", "-", "some", 1),
                 Fld("O1.y", "scalar", "-", "O1.g", "some", 1)>>, FALSE, FALSE, {"O1.g"})
      [] name = "O2" ->  \* required oneof, first member without rules
           Msg(<<Fld("O2.x", "scalar", "-", "O2.g", "none", 1),
                 Fld("O2.z", "scalar", "-", "-", "some", 1),
                 Fld("O2.y", "scalar", "-", "O2.g", "some", 1)>>, FALSE, FALSE, {"O2.g"})
      [] name = "O3" ->  \* required oneof, no member with rules
           Msg(<<Fld("O3.x", "scalar", "-", "O3.g", "none", 1),
                 Fld("O3.y", "scalar", "-", "O3.g", "none", 1)>>, FALSE, FALSE, {"O3.g"})
      [] name = "N" ->   \* oneof without the required option, a message member
           Msg(<<Fld("N.p", "scalar", "-", "N.h", "none", 1),
                 Fld("N.q", "message", "K", "N.h", "some", 1)>>, FALSE, FALSE, {})
      [] name = "W" ->   \* fields without rules beside a constrained one
           Msg(<<Fld("W.u", "scalar", "-", "-", "none", 1),
                 Fld("W.w", "message", "B", "-", "none", 1),
                 Fld("W.v", "scalar", "-", "-", "some", 1)>>, FALSE, FALSE, {})
      [] name = "L" ->   \* a list with a chain of three steps
           Msg(<<Fld("L.l", "list", "-", "-", "some", 3)>>, FALSE, FALSE, {})
      [] name = "LI" ->  \* a list of items: one opaque step, then the items step
           Msg(<<Fld("LI.items", "list", "K", "-", "some", 2)>>, FALSE, FALSE, {})
      [] name = "M" ->   \* a map whose values are items
           Msg(<<Fld("M.m", "map", "K", "-", "some", 2)>>, FALSE, FALSE, {})

Fields(name) == Descriptor(name).fields
NFields(name) == Len(Fields(name))
Field(name, i) == Fields(name)[i]

\* OneofDescriptor::fields(): the members of a oneof, in declaration order.
RECURSIVE MembersFrom(_, _, _)
MembersFrom(name, o, i) ==
    IF i > NFields(name) THEN <<>>
    ELSE (IF Field(name, i).oneof = o THEN <<i>> ELSE <<>>) \o MembersFrom(name, o, i + 1)
OneofFields(name, o) == MembersFrom(name, o, 1)

\* ------------------------------------------------------------------ results
Ok == [kind |-> "ok", at |-> <<>>]
Err(k, a) == [kind |-> k, at |-> a]
IsErr(r) == r.kind # "ok"

\* ----------------------------------------------------------------- messages
\* A reflected field value.  A scalar carries whether it is set and what the
\* field's rule chain answers for it (T: Ok(true), F: Ok(false), E: Err); a
\* list or map carries the answers of its opaque chain steps and its items.
ChainRes == {"T", "F", "E"}
NoMsg == [type |-> "-", f |-> <<>>]
Unset == [set |-> FALSE, sub |-> NoMsg]

RECURSIVE Msgs(_, _)
RECURSIVE Tuples(_, _, _)
FieldVals(name, i, d) ==
    LET f == Field(name, i)
        subs == IF d = 0 THEN {} ELSE Msgs(f.ref, d - 1)
        opaque == IF f.ref = "-" THEN f.chain ELSE f.chain - 1
    IN CASE f.shape = "scalar" /\ f.oneof # "-" ->
              {[set |-> s, res |-> r] : s \in BOOLEAN, r \in {"T", "E"}}
         [] f.shape = "scalar" /\ f.oneof = "-" ->
              {[set |-> TRUE, res |-> r] : r \in ChainRes}
         [] f.shape = "message" ->
              {Unset} \cup {[set |-> TRUE, sub |-> s] : s \in subs}
         [] OTHER ->
              {[outs |-> o, items |-> it] :
                   o \in [1..opaque -> ChainRes],
                   it \in {<<>>} \cup (IF f.ref = "-" THEN {} ELSE {<<s>> : s \in subs})}
Tuples(name, i, d) ==
    IF i > NFields(name) THEN {<<>>}
    ELSE {<<v>> \o t : v \in FieldVals(name, i, d), t \in Tuples(name, i + 1, d)}
Msgs(name, d) == {[type |-> name, f |-> t] : t \in Tuples(name, 1, d)}

\* How deeply a message instance is nested.
RECURSIVE MsgDepth(_)
SeqMax(s) == IF s = {} THEN 0 ELSE CHOOSE x \in s : \A y \in s : y <= x
MsgDepth(m) ==
    1 + SeqMax({ LET f == Field(m.type, i) v == m.f[i]
                 IN CASE f.shape = "scalar" -> 0
                      [] f.shape = "message" -> IF v.set THEN MsgDepth(v.sub) ELSE 0
                      [] OTHER -> IF v.items = <<>> THEN 0 ELSE MsgDepth(v.items[1])
                 : i \in 1..NFields(m.type) })

\* ------------------------------------------------------------------- cache
\* A cache entry (a ValidationFn).  The dummy inserted to break recursion and
\* the permanent no-op of a disabled / ignored schema are the same closure
\* |_| Ok(()); the tag records which insert put it there.
Placeholder == [tag |-> "placeholder", fns |-> <<>>]
NoOp == [tag |-> "noop", fns |-> <<>>]
Final(fns) == [tag |-> "final", fns |-> fns]

\* HashMap::insert
InsertNothing(m, k, e) == m
InsertEvict(m, k, e) == [x \in {k} |-> e]
Insert(m, k, e) == [x \in DOMAIN m \cup {k} |-> IF x = k THEN e ELSE m[x]]
EmptyMap == [x \in {} |-> Placeholder]

\* What a compile pass threads through its calls: the cache behind the write
\* guard, and the record of what the pass did (the passes that ran past the
\* existing-entry check, the schemas whose fields were handed to a
\* collaborator, whether the call stack was exhausted).
Pass(m) == [m |-> m, passes |-> <<>>, insp |-> {}, over |-> FALSE]

\* utils::get_field_rules, the Rule Extractor.
GetFieldRules(name, i) ==
    LET f == Field(name, i)
    IN IF f.rules = "err" THEN Err("extractor", <<f.name>>) ELSE Ok

\* The whole-message steps register pushes.
MemberStep(name, i) == [kind |-> "member", desc |-> name, field |-> i]
OneofStep(name, i) == [kind |-> "oneof", desc |-> name, field |-> i]
ListStep(name, i) == [kind |-> "list", desc |-> name, field |-> i]
MapStep(name, i) == [kind |-> "map", desc |-> name, field |-> i]
FieldStep(name, i) == [kind |-> "field", desc |-> name, field |-> i]

\* LET x == v IN F(x), with v evaluated once.
Bind(v, F(_)) == CHOOSE r \in {F(x) : x \in {v}} : TRUE

RECURSIVE register(_, _, _)
RECURSIVE WalkFields(_, _, _, _)
RECURSIVE WalkMembers(_, _, _, _, _)

\* The state of one pass over a schema's fields: the pass, the steps pushed on
\* fns, the oneofs membership map (its keys), and the Result so far.
Walk(g) == [g |-> g, fns |-> <<>>, oneofs |-> {}, res |-> Ok]

\* field::make_validate_field, list::make_validate_list, map::make_validate_map:
\* the chain compilers.  They are handed the cache and compile the schema of
\* a message-typed field, element or value; they return a chain, not a
\* Result, so a failure of that nested Compile does not reach the caller.
MakeValidate(g, name, i, fuel) ==
    IF Field(name, i).ref = "-" THEN g ELSE register(g, Field(name, i).ref, fuel - 1).g

\* The existing-entry check that opens register.
HasEntryNoCheck(m, name) == FALSE
HasEntry(m, name) == name \in DOMAIN m

\* desc.options().get_extension(&VALIDATION_ONE_OF_RULES).is_true()
OneofRequired(name, o) == o \in Descriptor(name).required

\* One turn of the inner loop over the members of a oneof: the member is
\* entered in the membership map, its rules are extracted, and a member with
\* rules gets its chain compiled and its presence-gated step pushed.
VisitMember(w, name, i, fuel) ==
    IF Field(name, i).rules = "some"
    THEN [g |-> MakeValidate(w.g, name, i, fuel),
          fns |-> Append(w.fns, MemberStep(name, i)),
          oneofs |-> w.oneofs \cup {Field(name, i).name},
          res |-> Ok]
    ELSE [w EXCEPT !.oneofs = @ \cup {Field(name, i).name},
                   !.res = GetFieldRules(name, i)]

\* for field in desc.fields() { ... } over the members of the oneof
WalkMembers(w, name, mem, k, fuel) ==
    IF k > Len(mem) \/ w.g.over \/ IsErr(w.res) THEN w
    ELSE Bind(VisitMember(w, name, mem[k], fuel),
              LAMBDA x : WalkMembers(x, name, mem, k + 1, fuel))

\* The oneof step is pushed once the members are done.
PushOneofStep(w, name, i) ==
    IF ~IsErr(w.res) /\ OneofRequired(name, Field(name, i).oneof)
    THEN [w EXCEPT !.fns = Append(@, OneofStep(name, i))]
    ELSE w

\* The oneof of a field is processed: every member, then the oneof step.
VisitOneof(w, name, i, fuel) ==
    Bind(WalkMembers(w, name, OneofFields(name, Field(name, i).oneof), 1, fuel),
         LAMBDA x : PushOneofStep(x, name, i))

\* What the shape of a field outside a oneof makes its whole-message step.
ShapeStep(name, i) ==
    CASE Field(name, i).shape = "list" -> ListStep(name, i)
      [] Field(name, i).shape = "map" -> MapStep(name, i)
      [] OTHER -> FieldStep(name, i)

\* The rule-less fields register skips before it looks at anything else.
SkipsNoRulesNever(name, i) == FALSE
SkipsNoRules(name, i) == Field(name, i).rules = "none"

\* One turn of the loop over desc.fields().
VisitFieldNoMembership(w, name, i, fuel) ==
    IF IsErr(GetFieldRules(name, i)) THEN [w EXCEPT !.res = GetFieldRules(name, i)]
    ELSE IF SkipsNoRules(name, i) THEN w
    ELSE IF Field(name, i).oneof # "-" THEN VisitOneof(w, name, i, fuel)
    ELSE [w EXCEPT !.g = MakeValidate(@, name, i, fuel),
                   !.fns = Append(@, ShapeStep(name, i))]
VisitField(w, name, i, fuel) ==
    IF IsErr(GetFieldRules(name, i)) THEN [w EXCEPT !.res = GetFieldRules(name, i)]
    ELSE IF SkipsNoRules(name, i) \/ Field(name, i).name \in w.oneofs THEN w
    ELSE IF Field(name, i).oneof # "-" THEN VisitOneof(w, name, i, fuel)
    ELSE [w EXCEPT !.g = MakeValidate(@, name, i, fuel),
                   !.fns = Append(@, ShapeStep(name, i))]

\* A field of the schema was handed to the Rule Extractor.
Inspected(w, name) == [w EXCEPT !.g.insp = @ \cup {name}]

\* for field in desc.fields() { ... }
WalkFields(w, name, i, fuel) ==
    IF i > NFields(name) \/ w.g.over \/ IsErr(w.res) THEN w
    ELSE Bind(VisitField(w, name, i, fuel),
              LAMBDA x : WalkFields(Inspected(x, name), name, i + 1, fuel))

\* opts.get_extension(&VALIDATION_DISABLED).is_true()
\*   || opts.get_extension(&VALIDATION_IGNORED).is_true()
IsDisabledOnly(name) == Descriptor(name).disabled
IsDisabled(name) == Descriptor(name).disabled \/ Descriptor(name).ignored

\* The dummy is inserted and the pass over the fields is recorded.
BeginNoDummy(g, name) == [g EXCEPT !.passes = Append(@, name)]
Begin(g, name) ==
    [g EXCEPT !.m = Insert(@, name, Placeholder),
              !.passes = Append(@, name)]

\* The end of register: the no-op of a disabled or ignored schema, the
\* extractor's error, or the finalized validator over fns.
Finalize(w, name) ==
    IF IsDisabled(name)
    THEN [g |-> [w.g EXCEPT !.m = Insert(@, name, NoOp)], res |-> Ok]
    ELSE IF IsErr(w.res) THEN [g |-> w.g, res |-> w.res]
    ELSE [g |-> [w.g EXCEPT !.m = Insert(@, name, Final(w.fns))], res |-> Ok]

\* Registry::register (Compile) on the cache behind the write guard.
register(g, name, fuel) ==
    IF fuel <= 0 THEN [g |-> [g EXCEPT !.over = TRUE], res |-> Ok]
    ELSE IF HasEntry(g.m, name) THEN [g |-> g, res |-> Ok]
    ELSE IF IsDisabled(name)
         THEN Bind(Walk(Begin(g, name)), LAMBDA x : Finalize(x, name))
    ELSE Bind(WalkFields(Walk(Begin(g, name)), name, 1, fuel),
              LAMBDA x : Finalize(x, name))

\* ---------------------------------------------------------------- execution
\* utils::is_set, the Presence Predicate.
IsSet(v) == v.set

Max(a, b) == IF a >= b THEN a ELSE b

\* What running a chain, a step or a validator gives: the Result, the
\* continuation of a chain step, how many frames of do_validate were stacked
\* below, how many chain steps ran, whether the call stack was exhausted.
Out(res, cont, depth, ran, over) ==
    [res |-> res, cont |-> cont, depth |-> depth, ran |-> ran, over |-> over]

RECURSIVE do_validate(_, _, _)
RECURSIVE RunFns(_, _, _, _, _, _)
RECURSIVE RunChain(_, _, _, _, _, _)

\* What a chain step over a nested message makes of do_validate's answer.
Nested(r) == Out(r.res, ~IsErr(r.res), r.depth, 1, r.over)

\* What an opaque rule step answers: Err, Ok(false) or Ok(true).
Rule(a, at) ==
    IF a = "E" THEN Out(Err("violation", at), FALSE, 0, 1, FALSE)
    ELSE Out(Ok, a = "T", 0, 1, FALSE)

\* The chain make_validate_field returns, applied to a value: the field's
\* rules on a scalar, the nested schema's validator (looked up by name in
\* the cache handed in) on a message that is set.
ValidateField(name, i, v, m, fuel) ==
    IF Field(name, i).shape = "message"
    THEN IF v.set THEN Bind(do_validate(v.sub, m, fuel - 1), LAMBDA r : Nested(r))
         ELSE Out(Ok, TRUE, 0, 1, FALSE)
    ELSE Rule(v.res, <<Field(name, i).name>>)

\* Step k of the chain make_validate_list / make_validate_map returns, applied
\* to a value: an opaque rule step, or (the last step of a chain over
\* messages) the validation of every item.
ChainStep(name, i, k, v, m, fuel) ==
    IF Field(name, i).ref # "-" /\ k = Field(name, i).chain
    THEN IF v.items = <<>> THEN Out(Ok, TRUE, 0, 1, FALSE)
         ELSE Bind(do_validate(v.items[1], m, fuel - 1), LAMBDA r : Nested(r))
    ELSE Rule(v.outs[k], <<Field(name, i).name, k>>)

\* The rest of the chain ran after step r.
After(r, n) == Out(n.res, TRUE, Max(r.depth, n.depth), n.ran + 1, n.over)

\* if !f(v, &rules, m)? { break; }
BreakOnFalseNot(c) == FALSE
BreakOnFalse(c) == ~c

\* for f in &validate_list { if !f(v, &rules, m)? { break; } } Ok(())
RunChain(name, i, k, v, m, fuel) ==
    IF k > Field(name, i).chain THEN Out(Ok, TRUE, 0, 0, FALSE)
    ELSE Bind(ChainStep(name, i, k, v, m, fuel), LAMBDA r :
              IF IsErr(r.res) \/ r.over THEN r
              ELSE IF BreakOnFalse(r.cont) THEN Out(Ok, TRUE, r.depth, 1, FALSE)
              ELSE Bind(RunChain(name, i, k + 1, v, m, fuel), LAMBDA n : After(r, n)))

\* The oneof step: at most one member set, and at least one.
RECURSIVE ScanOneof(_, _, _, _)
ScanOneof(o, mem, k, has) ==
    IF k > Len(mem)
    THEN IF ~has THEN Err("oneof does not contains any value", <<o>>) ELSE Ok
    ELSE IF IsSet(mem[k]) /\ has THEN Err("oneof contains multiple values", <<o>>)
    ELSE ScanOneof(o, mem, k + 1, has \/ IsSet(mem[k]))

\* msg.get_field(&field) for every field of the oneof.
MemberValues(msg, mem) == [k \in 1..Len(mem) |-> msg.f[mem[k]]]

\* The oneof step called on a message.
CheckOneof(name, o, msg) ==
    Out(ScanOneof(o, MemberValues(msg, OneofFields(name, o)), 1, FALSE), TRUE, 0, 0, FALSE)

\* One whole-message step (a closure pushed on fns) called on Args { msg, m }.
RunStepUngated(step, msg, m, fuel) ==
    CASE step.kind \in {"member", "field"} ->
           ValidateField(step.desc, step.field, msg.f[step.field], m, fuel)
      [] step.kind = "oneof" ->
           CheckOneof(step.desc, Field(step.desc, step.field).oneof, msg)
      [] OTHER -> RunChain(step.desc, step.field, 1, msg.f[step.field], m, fuel)
RunStep(step, msg, m, fuel) ==
    CASE step.kind = "member" ->
           IF ~IsSet(msg.f[step.field]) THEN Out(Ok, TRUE, 0, 0, FALSE)
           ELSE ValidateField(step.desc, step.field, msg.f[step.field], m, fuel)
      [] step.kind = "oneof" ->
           CheckOneof(step.desc, Field(step.desc, step.field).oneof, msg)
      [] step.kind = "field" ->
           ValidateField(step.desc, step.field, msg.f[step.field], m, fuel)
      [] OTHER -> RunChain(step.desc, step.field, 1, msg.f[step.field], m, fuel)

\* What a validator's run gives: the Result, the frames of do_validate
\* stacked below it, whether the stack was exhausted, and for each step that
\* ran its index, its Result and how many chain steps it ran.
Ran(res, depth, o, trace) == [res |-> res, depth |-> depth, over |-> o, trace |-> trace]
Traced(trace, k, r) == Append(trace, [step |-> k, res |-> r.res, ran |-> r.ran])

\* The first failing step ends the run.
StopOnErrNot(r) == FALSE
StopOnErrOrFalse(r) == IsErr(r.res) \/ ~r.cont
StopOnErr(r) == IsErr(r.res)

\* The finalized validator: for f in &fns { f(v)?; } Ok(())
RunFns(fns, k, msg, m, fuel, trace) ==
    IF k > Len(fns) THEN Ran(Ok, 0, FALSE, trace)
    ELSE Bind(RunStep(fns[k], msg, m, fuel), LAMBDA r :
              IF StopOnErr(r) \/ r.over THEN Ran(r.res, r.depth, r.over, Traced(trace, k, r))
              ELSE Bind(RunFns(fns, k + 1, msg, m, fuel, Traced(trace, k, r)),
                        LAMBDA n : [n EXCEPT !.depth = Max(r.depth, @)]))

\* A cache entry called on Args { msg, m }.
CallEntry(e, msg, m, fuel) ==
    IF e.tag = "final" THEN RunFns(e.fns, 1, msg, m, fuel, <<>>)
    ELSE Ran(Ok, 0, FALSE, <<>>)

\* Registry::do_validate
do_validate(msg, m, fuel) ==
    IF fuel <= 0 THEN Ran(Ok, 0, TRUE, <<>>)
    ELSE IF msg.type \in DOMAIN m
         THEN Bind(CallEntry(m[msg.type], msg, m, fuel), LAMBDA r : [r EXCEPT !.depth = @ + 1])
         ELSE Ran(Err("no validator for", <<msg.type>>), 1, FALSE, <<>>)

\* -------------------------------------------------------------------- state
VARIABLES
    cache,     \* REGISTRY.m: schema full name -> ValidationFn
    readers,   \* the threads holding the RwLock's read guard
    writer,    \* the thread holding the write guard, 0 for none
    pc,        \* where each thread is in validate
    msg,       \* the message each thread validates
    result,    \* what each thread's last validate returned
    exec,      \* what each thread's cached validator did when it was called
    comp,      \* what each thread's call of register did
    passes,    \* per schema, how often register ran past its existing-entry check
    insp,      \* the schemas whose fields register handed to a collaborator
    over,      \* whether a call ever exhausted the call stack
    root       \* the schema the sequential specification validates messages of

vars == <<cache, readers, writer, pc, msg, result, exec, comp, passes, insp, over, root>>

None == [kind |-> "none", at |-> <<>>]
NoExec == [ran |-> FALSE, tag |-> "-", res |-> None, depth |-> 0, trace |-> <<>>]
NoComp == [ran |-> FALSE, res |-> None, passes |-> <<>>]

\* Messages of the concurrent specification's callers.
Scalar(r) == [set |-> TRUE, res |-> r]
Member(s, r) == [set |-> s, res |-> r]
Sub(m) == [set |-> TRUE, sub |-> m]
MsgA0 == [type |-> "A", f |-> <<Scalar("E"), Unset, Unset>>]
MsgA1 == [type |-> "A", f |-> <<Scalar("T"), Sub(MsgA0), Unset>>]
MsgB0 == [type |-> "B", f |-> <<Unset>>]
MsgE0 == [type |-> "E", f |-> <<Unset, Scalar("T")>>]
MsgX1 == [type |-> "X", f |-> <<Sub(MsgE0)>>]
MsgD0 == [type |-> "D", f |-> <<Member(FALSE, "E"), Member(FALSE, "E")>>]
CallMsgs == {MsgA1, MsgB0, MsgE0, MsgX1, MsgD0}

Count(seq, n) == Cardinality({k \in 1..Len(seq) : seq[k] = n})

InitCommon ==
    /\ cache = EmptyMap
    /\ readers = {}
    /\ writer = 0
    /\ pc = [t \in Threads |-> "idle"]
    /\ msg = [t \in Threads |-> NoMsg]
    /\ result = [t \in Threads |-> None]
    /\ exec = [t \in Threads |-> NoExec]
    /\ comp = [t \in Threads |-> NoComp]
    /\ passes = [n \in Names |-> 0]
    /\ insp = {}
    /\ over = FALSE

Init == InitCommon /\ root = "-"

\* A caller enters validate(msg).
Enter(t, m) ==
    /\ pc[t] = "idle"
    /\ pc' = [pc EXCEPT ![t] = "start"]
    /\ msg' = [msg EXCEPT ![t] = m]
    /\ result' = [result EXCEPT ![t] = None]
    /\ UNCHANGED <<cache, readers, writer, exec, comp, passes, insp, over, root>>

\* let m = self.m.read().unwrap();
AcquireRead(t) ==
    /\ pc[t] = "start"
    /\ writer = 0
    /\ readers' = readers \cup {t}
    /\ pc' = [pc EXCEPT ![t] = "reading"]
    /\ UNCHANGED <<cache, writer, msg, result, exec, comp, passes, insp, over, root>>

\* if let Some(f) = m.get(..) { f(&Args { msg, m: &m })?; ... }: the cached
\* validator runs under the read guard.
Hit(t) ==
    /\ pc[t] = "reading"
    /\ msg[t].type \in DOMAIN cache
    /\ \E r \in {CallEntry(cache[msg[t].type], msg[t], cache, MaxStack)} :
          /\ result' = [result EXCEPT ![t] = r.res]
          /\ exec' = [exec EXCEPT ![t] = [ran |-> TRUE, tag |-> cache[msg[t].type].tag,
                                           res |-> r.res, depth |-> r.depth + 1,
                                           trace |-> r.trace]]
          /\ over' = (over \/ r.over)
    /\ pc' = [pc EXCEPT ![t] = "executed"]
    /\ UNCHANGED <<cache, readers, writer, msg, comp, passes, insp, root>>

\* validate returns what the validator returned; the read guard is dropped.
Return(t) ==
    /\ pc[t] = "executed"
    /\ readers' = readers \ {t}
    /\ pc' = [pc EXCEPT ![t] = "idle"]
    /\ exec' = [exec EXCEPT ![t] = NoExec]
    /\ comp' = [comp EXCEPT ![t] = NoComp]
    /\ UNCHANGED <<cache, writer, msg, result, passes, insp, over, root>>

\* No entry: the first block ends and the read guard is dropped.
MissHolding(t) ==
    /\ pc[t] = "reading"
    /\ msg[t].type \notin DOMAIN cache
    /\ pc' = [pc EXCEPT ![t] = "miss"]
    /\ UNCHANGED <<cache, readers, writer, msg, result, exec, comp, passes, insp, over, root>>
Miss(t) ==
    /\ pc[t] = "reading"
    /\ msg[t].type \notin DOMAIN cache
    /\ readers' = readers \ {t}
    /\ pc' = [pc EXCEPT ![t] = "miss"]
    /\ UNCHANGED <<cache, writer, msg, result, exec, comp, passes, insp, over, root>>

\* let mut m = self.m.write().unwrap();
AcquireWriteUnguarded(t) ==
    /\ pc[t] = "miss"
    /\ writer = 0
    /\ writer' = t
    /\ pc' = [pc EXCEPT ![t] = "writing"]
    /\ UNCHANGED <<cache, readers, msg, result, exec, comp, passes, insp, over, root>>
AcquireWrite(t) ==
    /\ pc[t] = "miss"
    /\ writer = 0
    /\ readers = {}
    /\ writer' = t
    /\ pc' = [pc EXCEPT ![t] = "writing"]
    /\ UNCHANGED <<cache, readers, msg, result, exec, comp, passes, insp, over, root>>

\* self.register(&mut m, &desc)
Compile(t) ==
    /\ pc[t] = "writing"
    /\ \E r \in {register(Pass(cache), msg[t].type, MaxStack)} :
          /\ cache' = r.g.m
          /\ passes' = [n \in Names |-> passes[n] + Count(r.g.passes, n)]
          /\ insp' = insp \cup r.g.insp
          /\ over' = (over \/ r.g.over)
          /\ comp' = [comp EXCEPT ![t] = [ran |-> TRUE, res |-> r.res, passes |-> r.g.passes]]
    /\ pc' = [pc EXCEPT ![t] = "compiled"]
    /\ UNCHANGED <<readers, writer, msg, result, exec, root>>

\* The second block ends: register's error is returned by `?`, or
\* self.validate(msg) is called again; either way the write guard is dropped.
ReleaseWriteRetry(t) ==
    /\ pc[t] = "compiled"
    /\ writer' = 0
    /\ pc' = [pc EXCEPT ![t] = "start"]
    /\ UNCHANGED <<cache, readers, msg, result, exec, comp, passes, insp, over, root>>
ReleaseWrite(t) ==
    /\ pc[t] = "compiled"
    /\ writer' = 0
    /\ IF IsErr(comp[t].res)
       THEN /\ result' = [result EXCEPT ![t] = comp[t].res]
            /\ pc' = [pc EXCEPT ![t] = "idle"]
            /\ comp' = [comp EXCEPT ![t] = NoComp]
       ELSE /\ result' = result
            /\ pc' = [pc EXCEPT ![t] = "start"]
            /\ comp' = comp
    /\ UNCHANGED <<cache, readers, msg, exec, passes, insp, over, root>>

Call == \E t \in Threads, m \in CallMsgs : Enter(t, m)
Read == \E t \in Threads : AcquireRead(t)
Execute == \E t \in Threads : Hit(t)
Finish == \E t \in Threads : Return(t)
Missed == \E t \in Threads : Miss(t)
Write == \E t \in Threads : AcquireWrite(t)
Register == \E t \in Threads : Compile(t)
Unlock == \E t \in Threads : ReleaseWrite(t)

Next == Call \/ Read \/ Execute \/ Finish \/ Missed \/ Write \/ Register \/ Unlock

Spec == Init /\ [][Next]_vars

\* One caller, a fresh registry, and every message of one schema.
InitSeq == InitCommon /\ root \in Names
SeqCall == \E m \in Msgs(root, MaxDepth) : Enter(1, m)
SeqRead == AcquireRead(1)
SeqExecute == Hit(1)
SeqFinish == Return(1)
SeqMissed == Miss(1)
SeqWrite == AcquireWrite(1)
SeqRegister == Compile(1)
SeqUnlock == ReleaseWrite(1)

NextSeq == SeqCall \/ SeqRead \/ SeqExecute \/ SeqFinish \/ SeqMissed \/ SeqWrite
              \/ SeqRegister \/ SeqUnlock

SpecSeq == InitSeq /\ [][NextSeq]_vars

\* Callers on a fair reader-writer lock: a thread that waits for exclusive
\* access holds back the threads that ask for shared access after it, and
\* every thread that can take a step of validate eventually takes it.
FairMsgs == {MsgB0, MsgE0}
WriterWaiting == \E u \in Threads : pc[u] = "miss"
FairAcquireRead(t) == ~WriterWaiting /\ AcquireRead(t)
FairCall == \E t \in Threads, m \in FairMsgs : Enter(t, m)
FairRead == \E t \in Threads : FairAcquireRead(t)
FairExecute == \E t \in Threads : Hit(t)
FairFinish == \E t \in Threads : Return(t)
FairMissed == \E t \in Threads : Miss(t)
FairWrite == \E t \in Threads : AcquireWrite(t)
FairRegister == \E t \in Threads : Compile(t)
FairUnlock == \E t \in Threads : ReleaseWrite(t)

NextFair == FairCall \/ FairRead \/ FairExecute \/ FairFinish \/ FairMissed \/ FairWrite
               \/ FairRegister \/ FairUnlock

Progress(t) ==
    FairAcquireRead(t) \/ Hit(t) \/ Return(t) \/ Miss(t) \/ AcquireWrite(t) \/ Compile(t)
       \/ ReleaseWrite(t)

SpecFair == Init /\ [][NextFair]_vars /\ \A t \in Threads : WF_vars(Progress(t))

\* =================================================================== claims
Entries == {cache[n] : n \in DOMAIN cache}
Done(t) == pc[t] = "idle" /\ result[t] # None
Ran1(t) == pc[t] = "executed"

\* C1: whenever no thread holds exclusive access, no cache entry is a
\* placeholder, and no validate call runs a placeholder as the cached
\* validator of a schema.
C1_NoPlaceholderOutsideCompile ==
    /\ writer = 0 => \A n \in DOMAIN cache : cache[n].tag # "placeholder"
    /\ \A t \in Threads : Ran1(t) => exec[t].tag # "placeholder"

\* C2: for every schema name register runs past its existing-entry check at
\* most once, whatever the interleaving: a thread that takes exclusive access
\* after another compiled the schema finds the entry and compiles nothing,
\* and once the pass has run the entry is there for every later lookup.
C2_CompileAtMostOnce ==
    /\ \A n \in Names : passes[n] <= 1 /\ (passes[n] = 1 <=> n \in DOMAIN cache)
    /\ \A t \in Threads :
          pc[t] = "compiled" =>
             /\ msg[t].type \in DOMAIN cache
             /\ \A k \in 1..Len(comp[t].passes) : passes[comp[t].passes[k]] = 1

\* Two threads missed, both took exclusive access in turn, and the second one
\* found the entry.
C2_Witness ==
    \E t \in Threads :
       /\ pc[t] = "compiled" /\ comp[t].passes = <<>>
       /\ \E u \in Threads \ {t} : msg[u].type = msg[t].type /\ pc[u] \in {"start", "reading", "executed"}

\* The schemas reachable from a set of schemas through their fields.
RECURSIVE Closure(_)
Closure(S) ==
    IF {r \in UNION {{Fields(n)[i].ref : i \in 1..NFields(n)} : n \in S} : r # "-"} \subseteq S
    THEN S
    ELSE Closure(S \cup {r \in UNION {{Fields(n)[i].ref : i \in 1..NFields(n)} : n \in S} : r # "-"})

NoDuplicates(seq) == \A j, k \in 1..Len(seq) : seq[j] = seq[k] => j = k

\* C3: on the self-referential schema A and the mutually recursive pair A, B
\* (as on every schema), validate ends for empty and for populated instances:
\* no call exhausts the stack, one call of Compile runs at most one pass per
\* schema reachable from its schema, and the validator stacks no more frames
\* of do_validate than the message instance has levels.
C3_RecursionEnds ==
    /\ ~over
    /\ \A t \in Threads :
          pc[t] = "compiled" =>
             /\ NoDuplicates(comp[t].passes)
             /\ \A k \in 1..Len(comp[t].passes) : comp[t].passes[k] \in Closure({msg[t].type})
    /\ \A t \in Threads : Ran1(t) => exec[t].depth <= MsgDepth(msg[t])

\* A populated instance of A (its self field and its B field set) ran through
\* the validators of A and B, both compiled in one pass.
C3_Witness ==
    /\ Ran1(1) /\ msg[1].type = "A"
    /\ msg[1].f[2].set /\ msg[1].f[3].set
    /\ exec[1].depth = 2 /\ exec[1].tag = "final"
    /\ passes["A"] = 1 /\ passes["B"] = 1

\* How many members of oneof o are set in a message.
SetCount(m, o) ==
    Cardinality({i \in 1..NFields(m.type) : Field(m.type, i).oneof = o /\ IsSet(m.f[i])})

\* No scalar of the message breaks its own rules.
RulesPass(m) ==
    \A i \in 1..NFields(m.type) : Field(m.type, i).shape = "scalar" => m.f[i].res # "E"

\* C4: for a oneof {x, y} with exclusivity required (of a schema that is
\* validated, and on messages whose fields pass their own rules), validate
\* fails with "does not contain any value" when neither member is set, with
\* "contains multiple values" when both are, and passes when exactly one is.
C4_OneofExclusivity ==
    \A t \in Threads :
       (Ran1(t) /\ ~IsDisabled(msg[t].type) /\ RulesPass(msg[t])) =>
          \A o \in Descriptor(msg[t].type).required :
             /\ SetCount(msg[t], o) = 0 =>
                   result[t] = Err("oneof does not contains any value", <<o>>)
             /\ SetCount(msg[t], o) = 2 =>
                   result[t] = Err("oneof contains multiple values", <<o>>)
             /\ SetCount(msg[t], o) = 1 => result[t] = Ok

\* The oneof steps of a finalized validator for oneof o.
OneofSteps(n, o) ==
    {k \in 1..Len(cache[n].fns) :
        cache[n].fns[k].kind = "oneof" /\ Field(n, cache[n].fns[k].field).oneof = o}

\* C5: the finalized validator of a schema with a oneof whose exclusivity is
\* required holds exactly one oneof step for it, whichever members have rules,
\* and so a message with no member set fails validation.
C5_OneOneofStep ==
    /\ \A n \in DOMAIN cache :
          cache[n].tag = "final" =>
             \A o \in Descriptor(n).required : Cardinality(OneofSteps(n, o)) = 1
    /\ \A t \in Threads :
          (Ran1(t) /\ exec[t].tag = "final") =>
             \A o \in Descriptor(msg[t].type).required :
                SetCount(msg[t], o) = 0 => IsErr(result[t])

\* C6: a schema flagged disabled or ignored always passes: every validate of
\* a message of it returns Ok whatever the fields hold, its entry is the
\* no-op, and Compile hands none of its fields to a collaborator.
C6_DisabledPasses ==
    /\ \A t \in Threads : (Done(t) /\ Descriptor(msg[t].type).disabled) => result[t] = Ok
    /\ \A t \in Threads :
          (Done(t) /\ Descriptor(msg[t].type).ignored) => result[t] = Ok
    /\ \A n \in DOMAIN cache :
          (Descriptor(n).disabled \/ Descriptor(n).ignored) => cache[n].tag = "noop"
    /\ \A n \in insp : ~Descriptor(n).disabled /\ ~Descriptor(n).ignored

\* A message of the disabled schema with both members of its required oneof
\* set, each to a value its rules reject, passed.
C6_Witness ==
    /\ Done(1) /\ msg[1].type = "D" /\ result[1] = Ok
    /\ msg[1].f[1] = Member(TRUE, "E") /\ msg[1].f[2] = Member(TRUE, "E")
    /\ "D" \in DOMAIN cache

\* What the cached validator of a message's schema answers for a message.
Answer(m) == CallEntry(cache[m.type], m, cache, MaxStack).res

\* The messages that differ from m in field i alone.
Variants(m, i) == {[m EXCEPT !.f[i] = v] : v \in FieldVals(m.type, i, MaxDepth)}

\* The oneof of field i has its exclusivity required and a member with rules.
InCheckedOneof(n, i) ==
    /\ Field(n, i).oneof # "-"
    /\ OneofRequired(n, Field(n, i).oneof)
    /\ \E j \in 1..NFields(n) : Field(n, j).oneof = Field(n, i).oneof /\ Field(n, j).rules # "none"

\* C7 as stated: a field whose Rule Extractor result is None never influences
\* the outcome: two messages of one schema that differ only in such a field
\* get the same result, a rule-less member of a required oneof included.
C7_NoRulesNoInfluence ==
    \A t \in Threads :
       Ran1(t) =>
          \A i \in 1..NFields(msg[t].type) :
             Field(msg[t].type, i).rules = "none" =>
                \A m \in Variants(msg[t], i) : Answer(m) = result[t]

\* C7 as amended: the same, for every rule-less field but a member of a oneof
\* whose exclusivity is required and that has a member with rules (such a
\* member counts in the oneof step).
C7_NoRulesNoInfluenceOutsideCheckedOneof ==
    \A t \in Threads :
       Ran1(t) =>
          \A i \in 1..NFields(msg[t].type) :
             (Field(msg[t].type, i).rules = "none" /\ ~InCheckedOneof(msg[t].type, i)) =>
                \A m \in Variants(msg[t], i) : Answer(m) = result[t]

\* A message of W passed although its rule-less scalar holds a value a rule
\* would reject and its rule-less message field is set.
C7_Witness ==
    /\ Ran1(1) /\ msg[1].type = "W" /\ exec[1].tag = "final" /\ result[1] = Ok
    /\ msg[1].f[1].res = "E" /\ msg[1].f[2].set

\* The schemas Compile reaches from a schema: through the fields with rules
\* of the schemas that are neither disabled nor ignored.
RECURSIVE Walked(_)
WalkedRefs(S) ==
    {r \in UNION {{Fields(n)[i].ref : i \in {j \in 1..NFields(n) : Fields(n)[j].rules = "some"}} :
                     n \in {x \in S : ~IsDisabled(x)}} : r # "-"}
Walked(S) == IF WalkedRefs(S) \subseteq S THEN S ELSE Walked(S \cup WalkedRefs(S))

\* C8: when Compile for a schema returns under exclusive access, the cache
\* holds a finalized entry for it and for every schema reachable from it
\* through its fields.
C8_TransitivelyClosed ==
    \A t \in Threads :
       pc[t] = "compiled" =>
          \A n \in Walked({msg[t].type}) :
             n \in DOMAIN cache /\ cache[n].tag \in {"final", "noop"}

\* The steps of the validator thread t ran, and the field each closes over.
Plan(t) == cache[msg[t].type].fns
StepField(t, j) == Plan(t)[exec[t].trace[j].step].field
StepKind(t, j) == Plan(t)[exec[t].trace[j].step].kind

\* The steps that ran are the first steps of the validator, in its order; no
\* step but the last one failed; validate returns the failure of the last
\* one, or Ok after every step ran.
FirstFailureEnds(t) ==
    /\ Len(exec[t].trace) <= Len(Plan(t))
    /\ \A j \in 1..Len(exec[t].trace) : exec[t].trace[j].step = j
    /\ \A j \in 1..Len(exec[t].trace) - 1 : ~IsErr(exec[t].trace[j].res)
    /\ IsErr(result[t]) =>
          exec[t].trace # <<>> /\ exec[t].trace[Len(exec[t].trace)].res = result[t]
    /\ ~IsErr(result[t]) =>
          /\ Len(exec[t].trace) = Len(Plan(t))
          /\ \A j \in 1..Len(exec[t].trace) : ~IsErr(exec[t].trace[j].res)

\* C9 as stated: within one execution of a compiled validator the steps run
\* strictly in the schema's declared field order, also when the members of a
\* oneof are interleaved with other fields, and the first failure ends it.
C9_DeclaredFieldOrder ==
    \A t \in Threads :
       (Ran1(t) /\ exec[t].tag = "final") =>
          /\ FirstFailureEnds(t)
          /\ \A j, k \in 1..Len(exec[t].trace) :
                (j < k /\ StepKind(t, j) # "oneof" /\ StepKind(t, k) # "oneof") =>
                   StepField(t, j) < StepField(t, k)

\* Where a step stands in the declared order: a step of a oneof (a member's,
\* or the oneof step) at the first member of the oneof that has rules, every
\* other step at its own field.
FirstWithRules(n, o) ==
    CHOOSE i \in 1..NFields(n) :
       /\ Field(n, i).oneof = o /\ Field(n, i).rules = "some"
       /\ \A j \in 1..i - 1 : ~(Field(n, j).oneof = o /\ Field(n, j).rules = "some")
Anchor(st) ==
    IF st.kind \in {"member", "oneof"}
    THEN FirstWithRules(st.desc, Field(st.desc, st.field).oneof)
    ELSE st.field

\* The order of the steps of a finalized validator.
PlanOrdered(fns) ==
    \A j, k \in 1..Len(fns) :
       j < k =>
          /\ Anchor(fns[j]) <= Anchor(fns[k])
          /\ Anchor(fns[j]) = Anchor(fns[k]) =>
                /\ fns[j].kind = "member"
                /\ fns[k].kind = "member" => fns[j].field < fns[k].field

\* C9 as amended: the steps run in the order register pushed them: declared
\* field order, but with the steps of a oneof (its members with rules in
\* declaration order, then the oneof step) together where its first member
\* with rules is declared; the first failure ends the execution, no later
\* step runs, and validate returns exactly that failure.
C9_PushOrder ==
    /\ \A n \in DOMAIN cache : cache[n].tag = "final" => PlanOrdered(cache[n].fns)
    /\ \A t \in Threads : (Ran1(t) /\ exec[t].tag = "final") => FirstFailureEnds(t)

\* On the schema whose oneof members are interleaved with a plain field, the
\* step of the second member ran before the plain field's step, which failed
\* and ended the execution.
C9_Witness ==
    /\ Ran1(1) /\ msg[1].type = "O1" /\ Len(exec[1].trace) = 4
    /\ StepField(1, 2) = 3 /\ StepField(1, 4) = 2
    /\ result[1] = Err("violation", <<"O1.z">>)

\* What chain step k of a list or map field answers for value v.
ChainAnswer(n, i, k, v) ==
    IF Field(n, i).ref # "-" /\ k = Field(n, i).chain
    THEN IF v.items # <<>> /\ IsErr(Answer(v.items[1])) THEN "E" ELSE "T"
    ELSE v.outs[k]

\* The first chain step that does not answer Ok(true), or the chain's length.
RECURSIVE FirstStop(_, _, _, _)
FirstStop(n, i, k, v) ==
    IF k >= Field(n, i).chain \/ ChainAnswer(n, i, k, v) # "T" THEN k
    ELSE FirstStop(n, i, k + 1, v)

\* C10: the whole-message step of a list or map field runs the chain from
\* its first step up to the first step that answers false or an error and no
\* further; false is no failure; an error fails the step with that error;
\* the step succeeds exactly when no chain step that ran answered an error.
C10_ChainEarlyStop ==
    \A t \in Threads :
       (Ran1(t) /\ exec[t].tag = "final") =>
          \A j \in 1..Len(exec[t].trace) :
             StepKind(t, j) \in {"list", "map"} =>
                LET n == msg[t].type
                    i == StepField(t, j)
                    v == msg[t].f[i]
                    last == FirstStop(n, i, 1, v)
                IN /\ exec[t].trace[j].ran = last
                   /\ IsErr(exec[t].trace[j].res) <=> ChainAnswer(n, i, last, v) = "E"
                   /\ (ChainAnswer(n, i, last, v) = "E" /\ Field(n, i).ref = "-") =>
                         exec[t].trace[j].res = Err("violation", <<Field(n, i).name, last>>)

\* A list whose chain answers true, false, error passed: the second step
\* stopped the chain and the third never ran.
C10_Witness ==
    /\ Ran1(1) /\ msg[1].type = "L" /\ msg[1].f[1].outs = <<"T", "F", "E">>
    /\ exec[1].trace[1].ran = 2 /\ result[1] = Ok

\* The schema a step looks up in the cache it is handed when it runs on a
\* message: the schema of its field when the value holds a message.
LooksUp(st, m) ==
    IF Field(st.desc, st.field).ref = "-" \/ st.kind = "oneof" THEN {}
    ELSE IF st.kind \in {"list", "map"}
         THEN (IF m.f[st.field].items = <<>> THEN {} ELSE {Field(st.desc, st.field).ref})
    ELSE (IF m.f[st.field].set THEN {Field(st.desc, st.field).ref} ELSE {})

\* C11: validate never returns "no validator for <name>": after a Compile
\* that returned success the schema is in the cache for the retried lookup,
\* and every schema a step of the executing validator looks up in the cache
\* snapshot is present.
C11_NeverUnregistered ==
    /\ \A t \in Threads :
          result[t].kind # "no validator for" /\ exec[t].res.kind # "no validator for"
    /\ \A t \in Threads :
          (comp[t].ran /\ ~IsErr(comp[t].res)) =>
             /\ msg[t].type \in DOMAIN cache
             /\ pc[t] \in {"compiled", "start", "reading", "executed"}
    /\ \A t \in Threads :
          (Ran1(t) /\ exec[t].tag = "final") =>
             \A j \in 1..Len(exec[t].trace) :
                LooksUp(Plan(t)[exec[t].trace[j].step], msg[t]) \subseteq DOMAIN cache

\* A call missed, compiled, hit on the retry, and its validator looked a
\* nested schema up in the cache.
C11_Witness ==
    \E t \in Threads :
       /\ Ran1(t) /\ comp[t].ran /\ exec[t].depth = 2
       /\ LooksUp(Plan(t)[1], msg[t]) \cup LooksUp(Plan(t)[Len(Plan(t))], msg[t]) # {}

\* The lock discipline: the write guard excludes every read guard, a thread
\* inside its first block holds a read guard, a thread inside its second
\* block holds the write guard.
LockDiscipline ==
    /\ writer # 0 => readers = {}
    /\ \A t \in Threads : t \in readers <=> pc[t] \in {"reading", "executed"}
    /\ \A t \in Threads : writer = t <=> pc[t] \in {"writing", "compiled"}

\* C12: the cache changes only in a step of Compile taken by the thread that
\* holds exclusive access; while a thread runs a validator under shared
\* access no thread is inside Compile; running a validator leaves the cache as
\* it is.
C12_MutatedOnlyUnderExclusive ==
    /\ []LockDiscipline
    /\ [][cache' # cache =>
             \E t \in Threads :
                /\ writer = t /\ readers = {}
                /\ pc[t] = "writing" /\ pc'[t] = "compiled"
                /\ \A u \in Threads \ {t} : pc[u] \in {"idle", "start", "miss"} /\ pc'[u] = pc[u]]_vars
    /\ [][(\E t \in Threads : pc[t] = "reading" /\ pc'[t] = "executed") => cache' = cache]_vars

\* A thread is back from its validator, still holding shared access, while
\* another one that missed waits for exclusive access.
C12_Witness ==
    \E t, u \in Threads :
       /\ pc[t] = "executed" /\ t \in readers /\ exec[t].tag = "final"
       /\ pc[u] = "miss" /\ msg[u].type \notin DOMAIN cache

\* C13: the cache is a map (one entry per name); its set of names only grows,
\* and an entry that is a finalized validator or the no-op of a disabled /
\* ignored schema is the same in every later state.
C13_PublishedNeverReplaced ==
    [][/\ DOMAIN cache \subseteq DOMAIN cache'
       /\ \A n \in DOMAIN cache :
             cache[n].tag \in {"final", "noop"} => cache'[n] = cache[n]]_vars

\* A Compile ran passes while entries published by an earlier Compile were
\* in the cache.
C13_Witness ==
    \E t \in Threads :
       /\ pc[t] = "compiled" /\ comp[t].passes # <<>>
       /\ \E n \in DOMAIN cache :
             /\ cache[n].tag \in {"final", "noop"}
             /\ \A k \in 1..Len(comp[t].passes) : comp[t].passes[k] # n

\* C14: nested-schema checks are bound late, by name: when a step over a
\* message field runs, the entry it finds for the field's schema is the
\* finalized validator (not the placeholder that was there when the step was
\* compiled), and the step answers what that validator answers for the
\* nested instance; so a message of the self-referential schema A fails on a
\* nested A that violates the constraint as that nested A fails on its own.
C14_LateBound ==
    \A t \in Threads :
       (Ran1(t) /\ exec[t].tag = "final") =>
          \A j \in 1..Len(exec[t].trace) :
             (StepKind(t, j) \in {"field", "member"} /\ LooksUp(Plan(t)[j], msg[t]) # {}) =>
                /\ \A n \in LooksUp(Plan(t)[j], msg[t]) :
                      n \in DOMAIN cache /\ cache[n].tag \in {"final", "noop"}
                /\ exec[t].trace[j].res = Answer(msg[t].f[StepField(t, j)].sub)

\* A thread asks for exclusive access only without shared access, and for
\* shared access only without exclusive access.
NoUpgrade ==
    \A t \in Threads :
       /\ pc[t] \in {"miss", "writing", "compiled"} => t \notin readers
       /\ pc[t] \in {"start", "reading", "executed"} => writer # t

\* A call asks for exclusive access (and compiles) before its Compile only,
\* so it makes one Compile attempt and two lookups at most.
OneAttempt ==
    \A t \in Threads :
       /\ pc[t] \in {"miss", "writing"} => ~comp[t].ran
       /\ (pc[t] = "reading" /\ comp[t].ran) => msg[t].type \in DOMAIN cache

\* Some thread inside validate can take its next step.
NotStuck == (\A t \in Threads : pc[t] = "idle") \/ (\E t \in Threads : ENABLED Progress(t))

\* C15: validate never upgrades a lock; with threads calling validate
\* concurrently on a fair reader-writer lock no state is a deadlock, and
\* every call returns, after one Compile attempt and two lookups at most.
C15_NoUpgradeEveryCallReturns ==
    /\ [](NoUpgrade /\ OneAttempt /\ NotStuck)
    /\ \A t \in Threads : (pc[t] # "idle") ~> (pc[t] = "idle")

\* A thread that compiled is about to look up again and is held back by a
\* thread waiting for exclusive access.
C15_Witness ==
    \E t, u \in Threads :
       pc[t] = "start" /\ comp[t].ran /\ pc[u] = "miss" /\ writer = 0

\* C16: Compile returns an error only when the Rule Extractor returns one for
\* a field of the schema it examines (never for a cyclic schema, never for a
\* disabled or ignored one); that error is what validate returns, at once,
\* and the call runs no validator.
C16_CompileFailsOnlyOnExtractor ==
    /\ [](\A t \in Threads :
             /\ (comp[t].ran /\ IsErr(comp[t].res)) =>
                   /\ pc[t] = "compiled"
                   /\ ~Descriptor(msg[t].type).disabled /\ ~Descriptor(msg[t].type).ignored
                   /\ \E i \in 1..NFields(msg[t].type) :
                         /\ Field(msg[t].type, i).rules = "err"
                         /\ comp[t].res = Err("extractor", <<Field(msg[t].type, i).name>>)
             /\ result[t].kind = "extractor" => pc[t] = "idle" /\ ~exec[t].ran)
    /\ [][\A t \in Threads :
             (pc[t] = "compiled" /\ pc'[t] # "compiled" /\ IsErr(comp[t].res)) =>
                pc'[t] = "idle" /\ result'[t] = comp[t].res /\ exec'[t] = NoExec]_vars

\* validate of a message of E returned the extractor's error for E's second
\* field, after the schemas of its first field were compiled, and ran nothing.
C16_Witness ==
    /\ Done(1) /\ msg[1].type = "E" /\ result[1] = Err("extractor", <<"E.e">>)
    /\ ~exec[1].ran /\ "B" \in DOMAIN cache /\ passes["E"] = 1

\* C17: the step of a oneof member with rules checks presence first: for a
\* member that is not set the chain is not run and the step succeeds; for a
\* member that is set the chain runs once and its error is the step's.
C17_MemberPresenceGated ==
    \A t \in Threads :
       (Ran1(t) /\ exec[t].tag = "final") =>
          \A j \in 1..Len(exec[t].trace) :
             StepKind(t, j) = "member" =>
                LET f == Field(msg[t].type, StepField(t, j))
                    v == msg[t].f[StepField(t, j)]
                    r == exec[t].trace[j]
                IN /\ f.rules = "some"
                   /\ ~IsSet(v) => r.ran = 0 /\ r.res = Ok
                   /\ IsSet(v) => r.ran = 1
                   /\ (IsSet(v) /\ f.shape = "scalar") =>
                         r.res = IF v.res = "E" THEN Err("violation", <<f.name>>) ELSE Ok
                   /\ (IsSet(v) /\ f.shape = "message") => r.res = Answer(v.sub)

\* A message of O1 passed with its first member unset and holding a value
\* its rules reject, and its other member set.
C17_Witness ==
    /\ Ran1(1) /\ msg[1].type = "O1" /\ result[1] = Ok
    /\ msg[1].f[1] = Member(FALSE, "E") /\ msg[1].f[3] = Member(TRUE, "T")
    /\ exec[1].trace[1].ran = 0 /\ exec[1].trace[2].ran = 1

\* The member steps of a cached validator for field i.
MemberSteps(n, i) ==
    {k \in 1..Len(cache[n].fns) : cache[n].fns[k].kind = "member" /\ cache[n].fns[k].field = i}

\* C18: a oneof is processed once per Compile of its schema: the finalized
\* validator holds exactly one presence-gated step per member with rules
\* (none for the others), at most one oneof step per oneof, and no other
\* step for a member, however many members the walk over the fields meets.
C18_OneofProcessedOnce ==
    \A n \in DOMAIN cache :
       cache[n].tag = "final" =>
          \A i \in 1..NFields(n) :
             Field(n, i).oneof # "-" =>
                /\ Cardinality(MemberSteps(n, i)) = (IF Field(n, i).rules = "some" THEN 1 ELSE 0)
                /\ Cardinality(OneofSteps(n, Field(n, i).oneof)) <= 1
                /\ \A k \in 1..Len(cache[n].fns) :
                      cache[n].fns[k].kind \in {"field", "list", "map"} =>
                         cache[n].fns[k].field # i

\* Compile of O1, whose walk meets two members of one oneof, gave the steps
\* of the two members, the oneof step and the plain field's step.
C18_Witness ==
    /\ pc[1] = "compiled" /\ msg[1].type = "O1"
    /\ cache["O1"].fns = <<MemberStep("O1", 1), MemberStep("O1", 3), OneofStep("O1", 1),
                           FieldStep("O1", 2)>>

\* C19: the step of a singular field with rules outside a oneof runs the
\* field's chain once on the field's value; it fails exactly when the chain
\* answers an error; whether the chain answers true or false changes neither
\* the step's result nor that the next step runs.
C19_SingularErrorChannelOnly ==
    \A t \in Threads :
       (Ran1(t) /\ exec[t].tag = "final") =>
          \A j \in 1..Len(exec[t].trace) :
             StepKind(t, j) = "field" =>
                LET f == Field(msg[t].type, StepField(t, j))
                    v == msg[t].f[StepField(t, j)]
                    r == exec[t].trace[j]
                IN /\ f.oneof = "-" /\ f.rules = "some" /\ r.ran = 1
                   /\ f.shape = "scalar" =>
                         r.res = IF v.res = "E" THEN Err("violation", <<f.name>>) ELSE Ok
                   /\ f.shape = "message" => r.res = IF v.set THEN Answer(v.sub) ELSE Ok
                   /\ (~IsErr(r.res) /\ j < Len(Plan(t))) => Len(exec[t].trace) > j
                   /\ (~IsErr(r.res) /\ j = Len(Plan(t))) => result[t] = Ok

\* A message of A whose scalar's chain answered false passed, and the steps
\* of the two fields after it ran.
C19_Witness ==
    /\ Ran1(1) /\ msg[1].type = "A" /\ msg[1].f[1].res = "F"
    /\ Len(exec[1].trace) = 3 /\ result[1] = Ok

\* What validate returns for a message on a fresh registry.
FreshResult(m) ==
    Bind(register(Pass(EmptyMap), m.type, MaxStack), LAMBDA r :
         IF IsErr(r.res) THEN r.res ELSE CallEntry(r.g.m[m.type], m, r.g.m, MaxStack).res)

\* C20: what validate returns for a message does not depend on the cache, on
\* the calls made before or on the interleaving: it is what validate returns
\* for it on a fresh registry, so a call that returned an error returns the
\* same error when it is repeated.
C20_HistoryIndependent ==
    \A t \in Threads : Done(t) => result[t] = FreshResult(msg[t])

====
